---- MODULE Spec2Model ----
(***************************************************************************)
(* Model of kowake.create_repacking_priority_list_from_excel (kowake.py)   *)
(* and of the result dispatch of app.py.                                   *)
(*                                                                         *)
(* Encoding of the text the program handles (TLA+ strings stay ASCII):     *)
(*   characters of a product name:  "D" = the diamond mark U+25C7,         *)
(*      "T" = U+6771 (east), "K" = U+4EAC (capital), "I" = U+4E00 (one),   *)
(*      "n","a" = the letters of the text "nan";                           *)
(*   header names: "code","name","prev","today","deliv","short" stand for  *)
(*      the six header texts of kowake.py lines 65-70, "box" for any other *)
(*      header; a raw header cell is a sequence of tokens, " " being one   *)
(*      whitespace character.                                              *)
(* A cell read from the workbook is a record [k, v]: k = "int" (a number,  *)
(* v its value), k = "txt" (non-numeric text) or k = "nan" (empty cell).   *)
(* Quotients are exact rationals <<numerator, denominator>>; on the small  *)
(* integers of the model, equality and order of the IEEE quotients the     *)
(* program computes coincide with those of the exact quotients.            *)
(* Header names are taken to be distinct after trimming.                   *)
(***************************************************************************)
EXTENDS Integers, Sequences, FiniteSets, TLC

VARIABLES
    input,             \* the uploaded workbook: [file, header, rows]
    pc,                \* position in create_repacking_priority_list_from_excel
    available_cols,    \* the trimmed header (kowake.py line 62)
    dtypes,            \* dtype of each of the four numeric columns
    df,                \* the table as read
    df_temp_filtered,  \* after the name filters and the coercion
    df_filtered,       \* after the quantity filter, then with the two ratios
    df_sorted,
    output_df,
    result,            \* the returned four-tuple
    ui                 \* what app.py shows for the result

vars == << input, pc, available_cols, dtypes, df, df_temp_filtered, df_filtered,
           df_sorted, output_df, result, ui >>

\* ------------------------------------------------------------------ bounds
MaxRows == 2
MaxQty == 1
MaxMissing == 2

\* ------------------------------------------------------------- cell values
Num(v) == [k |-> "int", v |-> v]
Txt == [k |-> "txt", v |-> 0]
NaN == [k |-> "nan", v |-> 0]
Str(s) == [k |-> "str", s |-> s]
NaNName == [k |-> "nan", s |-> <<>>]

\* ------------------------------------------------- column names (65-80)
product_code_col_excel == "code"
product_name_col_excel == "name"
prev_day_stock_col_excel == "prev"
today_received_col_excel == "today"
delivery_qty_col_excel == "deliv"
action_needed_col_excel == "short"

required_input_cols_map ==
    << product_code_col_excel, product_name_col_excel, prev_day_stock_col_excel,
       today_received_col_excel, delivery_qty_col_excel, action_needed_col_excel >>

numeric_cols_to_convert ==
    << prev_day_stock_col_excel, today_received_col_excel,
       delivery_qty_col_excel, action_needed_col_excel >>

Range(s) == { s[i] : i \in 1..Len(s) }

\* ------------------------------------------------------------ str helpers
\* str.strip(): drop the leading and the trailing whitespace of a header
RECURSIVE LStrip(_)
LStrip(s) == IF s /= <<>> /\ Head(s) = " " THEN LStrip(Tail(s)) ELSE s

RECURSIVE RStrip(_)
RStrip(s) ==
    IF s /= <<>> /\ s[Len(s)] = " " THEN RStrip(SubSeq(s, 1, Len(s) - 1)) ELSE s

Strip(s) == RStrip(LStrip(s))

\* df.columns.str.strip(): every header, trimmed, in sheet order
StripColumns(header) == [ i \in 1..Len(header) |-> Strip(header[i]) ]

\* "actual_col_name not in df.columns"
HasColumn(cols, c) == \E i \in 1..Len(cols) : cols[i] = << c >>

\* astype(str): an empty cell becomes the text "nan"
AsStr(cell) == IF cell.k = "nan" THEN << "n", "a", "n" >> ELSE cell.s

\* .str.contains(DIAMOND, na=False)
Contains(s, ch) == \E i \in 1..Len(s) : s[i] = ch

\* .str.endswith(EAST ONE, na=False)
EndsWith(s, suf) ==
    /\ Len(s) >= Len(suf)
    /\ SubSeq(s, Len(s) - Len(suf) + 1, Len(s)) = suf

ToichiSuffix == << "T", "I" >>

\* pd.to_numeric(errors='coerce').fillna(0) on one cell
ToNumeric(cell) == IF cell.k = "int" THEN cell.v ELSE 0

\* --------------------------------------------------------------- rationals
\* a / b for b /= 0, as <<numerator, denominator>> with denominator > 0
Quot(a, b) == IF b > 0 THEN << a, b >> ELSE << -a, -b >>
RatOf(n) == << n, 1 >>
RatLt(x, y) == x[1] * y[2] < y[1] * x[2]
RatEq(x, y) == x[1] * y[2] = y[1] * x[2]

\* ------------------------------------------------------ pipeline operators
\* pd.read_excel: a column holding any text cell is read with dtype object
ReadDtypes(rows) ==
    [ c \in Range(numeric_cols_to_convert) |->
        IF \E i \in 1..Len(rows) : rows[i][c].k = "txt" THEN "object" ELSE "num" ]

\* variant: the scan stops at the first absent column
MissingColsFirstOnly(cols) ==
    LET all == SelectSeq(required_input_cols_map, LAMBDA c : ~ HasColumn(cols, c))
    IN IF all = <<>> THEN <<>> ELSE << Head(all) >>

\* lines 82-85: the required columns absent from the trimmed header, in map order
MissingCols(cols) ==
    SelectSeq(required_input_cols_map, LAMBDA c : ~ HasColumn(cols, c))

\* line 93: rows whose name, as text, contains the diamond mark
HasDiamond(r) == Contains(AsStr(r.name), "D")
FilterDiamondRows(rows) == SelectSeq(rows, HasDiamond)

\* variant: the suffix test without its negation
FilterSuffixRowsKeepToichi(rows) ==
    SelectSeq(rows, LAMBDA r : EndsWith(AsStr(r.name), << "T", "I" >>))

\* line 97: rows whose name, as text, does not end with the suffix
EndsWithToichi(r) == EndsWith(AsStr(r.name), ToichiSuffix)
FilterSuffixRows(rows) == SelectSeq(rows, LAMBDA r : ~ EndsWithToichi(r))

\* lines 108-110: the four numeric columns, coerced cell by cell
CoerceRow(r) ==
    [ r EXCEPT !.prev = Num(ToNumeric(r.prev)), !.today = Num(ToNumeric(r.today)),
               !.deliv = Num(ToNumeric(r.deliv)), !.short = Num(ToNumeric(r.short)) ]
CoerceRows(rows) == [ i \in 1..Len(rows) |-> CoerceRow(rows[i]) ]

\* line 112: rows whose coerced quantity of today is not 0
TodayNonZero(r) == r.today.v /= 0
FilterTodayRows(rows) == SelectSeq(rows, TodayNonZero)

\* variant: a delivery quantity of 0 counts as fully covered
FulfillmentRatioDefaultOne(r) ==
    IF r.deliv.v /= 0 THEN Quot(r.prev.v, r.deliv.v) ELSE RatOf(1)

\* lines 117-121: np.where(deliv != 0, prev / deliv, 0)
FulfillmentRatio(r) ==
    IF r.deliv.v /= 0 THEN Quot(r.prev.v, r.deliv.v) ELSE RatOf(0)

\* lines 123-127: np.where(short > 0, deliv / short, -1)
EKRatio(r) ==
    IF r.short.v > 0 THEN Quot(r.deliv.v, r.short.v) ELSE RatOf(-1)

\* np.where evaluates the quotient of the whole columns before selecting. On a
\* column of dtype object the quotient is taken element by element by the
\* interpreter, and a zero divisor raises ZeroDivisionError; on numeric dtypes
\* it yields inf or nan, which np.where then discards.
DivisionRaises(rows, dt, num, den) ==
    /\ dt[num] = "object" \/ dt[den] = "object"
    /\ \E i \in 1..Len(rows) : rows[i][den].v = 0

DeriveRaises(rows, dt) ==
    \/ DivisionRaises(rows, dt, prev_day_stock_col_excel, delivery_qty_col_excel)
    \/ DivisionRaises(rows, dt, delivery_qty_col_excel, action_needed_col_excel)

DeriveRow(r) ==
    [ idx |-> r.idx, code |-> r.code, name |-> r.name, prev |-> r.prev,
      today |-> r.today, deliv |-> r.deliv, short |-> r.short,
      rate |-> FulfillmentRatio(r), ek |-> EKRatio(r) ]
DeriveRows(rows) == [ i \in 1..Len(rows) |-> DeriveRow(rows[i]) ]

\* variant: ascending=[True, True, True, True]
SortsBeforeAllAscending(a, b) ==
    \/ RatLt(a.rate, b.rate)
    \/ /\ RatEq(a.rate, b.rate)
       /\ \/ a.short.v < b.short.v
          \/ /\ a.short.v = b.short.v
             /\ \/ a.prev.v < b.prev.v
                \/ /\ a.prev.v = b.prev.v
                   /\ RatLt(a.ek, b.ek)

\* variant: by=[rate, short, ek], the previous-day stock left out
SortsBeforeWithoutStock(a, b) ==
    \/ RatLt(a.rate, b.rate)
    \/ /\ RatEq(a.rate, b.rate)
       /\ \/ a.short.v < b.short.v
          \/ /\ a.short.v = b.short.v
             /\ RatLt(b.ek, a.ek)

\* lines 130-133: a sorts strictly before b under by=[rate, short, prev, ek],
\* ascending=[True, True, True, False]
SortsBefore(a, b) ==
    \/ RatLt(a.rate, b.rate)
    \/ /\ RatEq(a.rate, b.rate)
       /\ \/ a.short.v < b.short.v
          \/ /\ a.short.v = b.short.v
             /\ \/ a.prev.v < b.prev.v
                \/ /\ a.prev.v = b.prev.v
                   /\ RatLt(b.ek, a.ek)

\* sort_values with several keys is a lexsort: stable, a row is placed after
\* every earlier row it does not sort strictly before
RECURSIVE InsertRow(_, _)
RECURSIVE InsertRowBeforeEquals(_, _)

\* variant: an unstable sort, a row is placed before the rows equal to it
InsertRowBeforeEquals(sorted, x) ==
    IF sorted = <<>> THEN << x >>
    ELSE IF ~ SortsBefore(Head(sorted), x) THEN << x >> \o sorted
    ELSE << Head(sorted) >> \o InsertRowBeforeEquals(Tail(sorted), x)

InsertRow(sorted, x) ==
    IF sorted = <<>> THEN << x >>
    ELSE IF SortsBefore(x, Head(sorted)) THEN << x >> \o sorted
    ELSE << Head(sorted) >> \o InsertRow(Tail(sorted), x)

RECURSIVE SortRows(_)
SortRows(rows) ==
    IF rows = <<>> THEN <<>>
    ELSE InsertRow(SortRows(SubSeq(rows, 1, Len(rows) - 1)), rows[Len(rows)])

\* lines 136-143: the seven output columns
ProjectRow(r) ==
    [ idx |-> r.idx, code |-> r.code, name |-> r.name, prev |-> r.prev.v,
      today |-> r.today.v, deliv |-> r.deliv.v, short |-> r.short.v,
      rate |-> r.rate ]
ProjectRows(rows) == [ i \in 1..Len(rows) |-> ProjectRow(rows[i]) ]

\* --------------------------------------------------------------- rendering
\* A worksheet: the cells that exist, the text written (what: "title",
\* "header", "data", "footer1", "footer2"), the bordered cells, the cells with
\* the percent format and the rows whose height was set.
OutputColumns == 7
RateColumn == 7
TitleColumn == 2
FooterColumn == 1

EmptySheet == [ cells |-> {}, content |-> {}, border |-> {}, percent |-> {},
                height |-> {} ]

MaxOf(S) == CHOOSE m \in S : \A n \in S : n <= m

\* worksheet.max_row: the last row holding a cell (1 on an empty sheet)
max_row(ws) == IF ws.cells = {} THEN 1 ELSE MaxOf({ c[1] : c \in ws.cells })

SetCell(ws, r, c, what) ==
    [ ws EXCEPT !.cells = @ \cup { << r, c >> },
                !.content = @ \cup { [ r |-> r, c |-> c, what |-> what ] } ]

\* line 152: to_excel(index=False, startrow=1): header in row 2, data from row 3
ToExcel(ws, n) ==
    [ ws EXCEPT
        !.cells = @ \cup ((2..(n + 2)) \X (1..OutputColumns)),
        !.content = @ \cup
            { [ r |-> 2, c |-> c, what |-> "header" ] : c \in 1..OutputColumns }
            \cup { [ r |-> r, c |-> c, what |-> "data" ] :
                      r \in 3..(n + 2), c \in 1..OutputColumns } ]

\* lines 159-164
WriteTitle(ws) == SetCell(ws, 1, TitleColumn, "title")

\* lines 200-220: every row up to max_row gets its height; iterating a row
\* creates its cells; rows from 2 on get the border
StylePass(ws) ==
    LET last == max_row(ws) IN
    [ ws EXCEPT
        !.height = @ \cup (1..last),
        !.cells = @ \cup ((1..last) \X (1..OutputColumns)),
        !.border = @ \cup ((2..last) \X (1..OutputColumns)) ]

\* lines 223-229
PercentPass(ws) ==
    [ ws EXCEPT !.percent = @ \cup { << r, RateColumn >> : r \in 3..max_row(ws) } ]

\* lines 236-251
WriteFooters(ws) ==
    IF max_row(ws) >= 2
    THEN LET footer1_row_num == max_row(ws) + 2
             footer2_row_num == footer1_row_num + 1
             w1 == SetCell(ws, footer1_row_num, FooterColumn, "footer1")
             w2 == SetCell(w1, footer2_row_num, FooterColumn, "footer2")
         IN [ w2 EXCEPT !.height = @ \cup { footer1_row_num, footer2_row_num } ]
    ELSE ws

\* variant: the footers written before the styling passes
RenderSheetFootersFirst(n) ==
    PercentPass(StylePass(WriteFooters(WriteTitle(ToExcel(EmptySheet, n)))))

\* lines 150-253
RenderSheet(n) ==
    WriteFooters(PercentPass(StylePass(WriteTitle(ToExcel(EmptySheet, n)))))

\* ------------------------------------------------------------------ inputs
DiamondToichi == Str(<< "D", "T", "I" >>)
DiamondTokyoIchi == Str(<< "D", "T", "K", "I" >>)
PlainTokyoIchi == Str(<< "T", "K", "I" >>)

NameCells == { DiamondToichi, DiamondTokyoIchi, PlainTokyoIchi, NaNName }

\* rows that exercise the three filters
FilterCases ==
    [ name : NameCells, today : { Num(1) },
      prev : { Num(1) }, deliv : { Num(1) }, short : { Num(1) } ]
    \cup
    [ name : { DiamondTokyoIchi }, today : { Num(0), Txt, NaN },
      prev : { Num(1) }, deliv : { Num(1) }, short : { Num(1) } ]

\* rows that pass the name filters and exercise the ratios and the sort
SortCases ==
    [ name : { DiamondTokyoIchi }, today : { Num(1) },
      prev : { Num(v) : v \in 0..MaxQty },
      deliv : { Num(v) : v \in 0..MaxQty } \cup { Txt },
      short : { Num(v) : v \in -1..1 } ]

\* rows read below a header that lacks a required column
ProbeCases ==
    [ name : { DiamondToichi, DiamondTokyoIchi, PlainTokyoIchi }, today : { Num(1) },
      prev : { Num(1) }, deliv : { Num(1) }, short : { Num(1) } ]

\* the rows of a sheet, numbered as pandas numbers them (from 0)
IndexRows(cases) ==
    [ i \in 1..Len(cases) |->
        [ idx |-> i - 1, code |-> 100 + i, name |-> cases[i].name,
          prev |-> cases[i].prev, today |-> cases[i].today,
          deliv |-> cases[i].deliv, short |-> cases[i].short ] ]

SheetHeaderNames == << "code", "name", "prev", "today", "deliv", "box", "short" >>

\* the second sheet row: the names not in `missing`, each padded or not
HeaderOf(missing, padded) ==
    LET names == SelectSeq(SheetHeaderNames, LAMBDA c : c \notin missing)
    IN [ i \in 1..Len(names) |->
           IF padded THEN << " ", names[i], " " >> ELSE << names[i] >> ]

LoadErrors == { "FileNotFoundError", "EmptyDataError", "WorksheetNotFound",
                "ValueError", "Exception" }

Workbook(header, cases) == [ file |-> "ok", header |-> header, rows |-> IndexRows(cases) ]
Unreadable(e) == [ file |-> e, header |-> <<>>, rows |-> <<>> ]

\* the workbooks the function is run on
IsInput(w) ==
    \/ \E n \in 0..MaxRows : \E t \in [ 1..n -> FilterCases \cup SortCases ] :
          w = Workbook(HeaderOf({}, FALSE), t)
    \/ \E m \in SUBSET Range(required_input_cols_map) :
          /\ Cardinality(m) <= MaxMissing
          /\ \E p \in BOOLEAN : \E n \in 0..MaxRows : \E t \in [ 1..n -> ProbeCases ] :
                w = Workbook(HeaderOf(m, p), t)
    \/ \E e \in LoadErrors : w = Unreadable(e)

\* ---------------------------------------------------------------- messages
NoMessage == [ text |-> "", missing |-> <<>>, headers |-> <<>>, error |-> "" ]
Message(text) == [ NoMessage EXCEPT !.text = text ]
ErrorMessage(text, e) == [ NoMessage EXCEPT !.text = text, !.error = e ]

MsgNoDiamond == "no product whose name contains the diamond mark"
MsgAllToichi == "no product whose name contains the diamond mark and does not end in toichi"
MsgNoToday == "no product with the diamond mark, not ending in toichi, with today's quantity not 0"
MsgSchema == "required columns not found"
MsgCompleted == "completed"
MsgUnexpected == "unexpected error"

output_filename == "MMDD_kowake.xlsx"

\* the four-tuple of line 50
Failure(msg) == [ ok |-> FALSE, message |-> msg, filename |-> <<>>, data |-> <<>> ]
EmptyResult(text) ==
    [ ok |-> TRUE, message |-> Message(text), filename |-> <<>>, data |-> <<>> ]

\* variant: the success result built without its filename
CompletedWithoutFilename(ws) ==
    [ ok |-> TRUE, message |-> Message(MsgCompleted), filename |-> <<>>,
      data |-> << ws >> ]

Completed(ws) ==
    [ ok |-> TRUE, message |-> Message(MsgCompleted),
      filename |-> << output_filename >>, data |-> << ws >> ]
NoResult == [ ok |-> FALSE, message |-> NoMessage, filename |-> <<>>, data |-> <<>> ]

\* lines 257-270: the handler chosen for an exception raised by read_excel
LoadFailure(e) ==
    CASE e = "FileNotFoundError" -> Failure(ErrorMessage("file not found", e))
      [] e = "EmptyDataError" -> Failure(ErrorMessage("file empty or unreadable", e))
      [] e = "WorksheetNotFound" -> Failure(ErrorMessage("error reading the first sheet", e))
      [] e = "ValueError" -> Failure(ErrorMessage("error reading the file (ValueError)", e))
      [] OTHER -> Failure(ErrorMessage(MsgUnexpected, e))

\* lines 87-90
SchemaFailure(missing, cols) ==
    Failure([ NoMessage EXCEPT !.text = MsgSchema, !.missing = missing,
                               !.headers = cols ])

\* ------------------------------------------------------------------- state
NumericDtypes == [ c \in Range(numeric_cols_to_convert) |-> "num" ]

Init ==
    /\ IsInput(input)
    /\ pc = "start"
    /\ available_cols = <<>>
    /\ dtypes = NumericDtypes
    /\ df = <<>>
    /\ df_temp_filtered = <<>>
    /\ df_filtered = <<>>
    /\ df_sorted = <<>>
    /\ output_df = <<>>
    /\ result = NoResult
    /\ ui = "none"

Return(r) == result' = r /\ pc' = "done"

\* lines 59-62 and, for an exception of read_excel, lines 257-270
Load ==
    /\ pc = "start"
    /\ IF input.file = "ok"
       THEN /\ df' = input.rows
            /\ available_cols' = StripColumns(input.header)
            /\ dtypes' = ReadDtypes(input.rows)
            /\ pc' = "loaded"
            /\ UNCHANGED result
       ELSE /\ Return(LoadFailure(input.file))
            /\ UNCHANGED << df, available_cols, dtypes >>
    /\ UNCHANGED << input, df_temp_filtered, df_filtered, df_sorted, output_df, ui >>

\* lines 73-90
CheckSchema ==
    /\ pc = "loaded"
    /\ LET missing_excel_cols == MissingCols(available_cols) IN
       IF missing_excel_cols /= <<>>
       THEN Return(SchemaFailure(missing_excel_cols, available_cols))
       ELSE pc' = "checked" /\ UNCHANGED result
    /\ UNCHANGED << input, available_cols, dtypes, df, df_temp_filtered, df_filtered,
                    df_sorted, output_df, ui >>

\* lines 93-95
FilterDiamond ==
    /\ pc = "checked"
    /\ df_temp_filtered' = FilterDiamondRows(df)
    /\ IF df_temp_filtered' = <<>>
       THEN Return(EmptyResult(MsgNoDiamond))
       ELSE pc' = "diamond" /\ UNCHANGED result
    /\ UNCHANGED << input, available_cols, dtypes, df, df_filtered, df_sorted,
                    output_df, ui >>

\* lines 97-99
FilterSuffix ==
    /\ pc = "diamond"
    /\ df_temp_filtered' = FilterSuffixRows(df_temp_filtered)
    /\ IF df_temp_filtered' = <<>>
       THEN Return(EmptyResult(MsgAllToichi))
       ELSE pc' = "suffix" /\ UNCHANGED result
    /\ UNCHANGED << input, available_cols, dtypes, df, df_filtered, df_sorted,
                    output_df, ui >>

\* lines 102-110. Assigning through .loc[:, col] either writes the numbers into
\* the existing column, which keeps its dtype (pandas from 2.0 on), or replaces
\* the column by the numeric one (earlier pandas): the installed library decides.
Coerce ==
    /\ pc = "suffix"
    /\ df_temp_filtered' = CoerceRows(df_temp_filtered)
    /\ \E inplace \in BOOLEAN :
          dtypes' = IF inplace THEN dtypes ELSE NumericDtypes
    /\ pc' = "coerced"
    /\ UNCHANGED << input, available_cols, df, df_filtered, df_sorted, output_df,
                    result, ui >>

\* lines 112-114
FilterToday ==
    /\ pc = "coerced"
    /\ df_filtered' = FilterTodayRows(df_temp_filtered)
    /\ IF df_filtered' = <<>>
       THEN Return(EmptyResult(MsgNoToday))
       ELSE pc' = "today" /\ UNCHANGED result
    /\ UNCHANGED << input, available_cols, dtypes, df, df_temp_filtered, df_sorted,
                    output_df, ui >>

\* lines 117-127 and, for the ZeroDivisionError, lines 269-270
Derive ==
    /\ pc = "today"
    /\ IF DeriveRaises(df_filtered, dtypes)
       THEN /\ Return(Failure(ErrorMessage(MsgUnexpected, "ZeroDivisionError")))
            /\ UNCHANGED df_filtered
       ELSE /\ df_filtered' = DeriveRows(df_filtered)
            /\ pc' = "derived"
            /\ UNCHANGED result
    /\ UNCHANGED << input, available_cols, dtypes, df, df_temp_filtered, df_sorted,
                    output_df, ui >>

\* lines 130-133
Sort ==
    /\ pc = "derived"
    /\ df_sorted' = SortRows(df_filtered)
    /\ pc' = "sorted"
    /\ UNCHANGED << input, available_cols, dtypes, df, df_temp_filtered, df_filtered,
                    output_df, result, ui >>

\* lines 136-255
Render ==
    /\ pc = "sorted"
    /\ output_df' = ProjectRows(df_sorted)
    /\ Return(Completed(RenderSheet(Len(output_df'))))
    /\ UNCHANGED << input, available_cols, dtypes, df, df_temp_filtered, df_filtered,
                    df_sorted, ui >>

\* app.py lines 27-41
Dispatch ==
    /\ pc = "done"
    /\ ui' = IF result.ok
             THEN IF result.filename /= <<>> /\ result.data /= <<>>
                  THEN "download" ELSE "info"
             ELSE "error"
    /\ pc' = "shown"
    /\ UNCHANGED << input, available_cols, dtypes, df, df_temp_filtered, df_filtered,
                    df_sorted, output_df, result >>

Next ==
    \/ Load
    \/ CheckSchema
    \/ FilterDiamond
    \/ FilterSuffix
    \/ Coerce
    \/ FilterToday
    \/ Derive
    \/ Sort
    \/ Render
    \/ Dispatch

Spec == Init /\ [][Next]_vars

\* ------------------------------------------------------------------ claims
Returned == pc \in { "done", "shown" }
HasArtifact == Returned /\ result.data /= <<>>

\* the six required names are all in the trimmed header of a readable workbook
SchemaOk ==
    /\ input.file = "ok"
    /\ \A c \in Range(required_input_cols_map) :
          \E i \in 1..Len(input.header) : Strip(input.header[i]) = << c >>

NameHasDiamond(r) == \E i \in 1..Len(AsStr(r.name)) : AsStr(r.name)[i] = "D"
NameEndsToichi(r) ==
    LET s == AsStr(r.name) IN
    Len(s) >= 2 /\ s[Len(s) - 1] = "T" /\ s[Len(s)] = "I"
TodayIsZero(r) == r.today.k /= "int" \/ r.today.v = 0
PassesAll(r) == NameHasDiamond(r) /\ ~ NameEndsToichi(r) /\ ~ TodayIsZero(r)

PassingRows == { i \in 1..Len(input.rows) : PassesAll(input.rows[i]) }

\* the value a numeric cell of the input has after coercion
Coerced(cell) == IF cell.k = "int" THEN cell.v ELSE 0

\* output row o is input row r with its numbers coerced
SameRow(o, r) ==
    /\ o.idx = r.idx /\ o.code = r.code /\ o.name = r.name
    /\ o.prev = Coerced(r.prev) /\ o.today = Coerced(r.today)
    /\ o.deliv = Coerced(r.deliv) /\ o.short = Coerced(r.short)

\* C1: whenever the six columns are present and at least one row passes the
\* three filters, the run returns an artifact whose rows are exactly the
\* passing input rows, none dropped, none duplicated, none added.
C1_OutputIsExactlyPassingRows ==
    (Returned /\ SchemaOk /\ PassingRows /= {}) =>
        /\ result.ok /\ result.data /= <<>>
        /\ Len(output_df) = Cardinality(PassingRows)
        /\ \A i \in PassingRows :
              Cardinality({ j \in 1..Len(output_df) :
                              SameRow(output_df[j], input.rows[i]) }) = 1
        /\ \A j \in 1..Len(output_df) :
              \E i \in PassingRows : SameRow(output_df[j], input.rows[i])

\* the four sort keys of an output row, from its coerced numbers
KeyRate(o) == IF o.deliv /= 0 THEN Quot(o.prev, o.deliv) ELSE << 0, 1 >>
KeyEK(o) == IF o.short > 0 THEN Quot(o.deliv, o.short) ELSE << -1, 1 >>
Less(x, y) == x[1] * y[2] < y[1] * x[2]
Same(x, y) == x[1] * y[2] = y[1] * x[2]

TieOnThree(a, b) ==
    Same(KeyRate(a), KeyRate(b)) /\ a.short = b.short /\ a.prev = b.prev

\* a is greater than b in the order (rate asc, short asc, prev asc, ek desc)
KeyGreater(a, b) ==
    \/ Less(KeyRate(b), KeyRate(a))
    \/ /\ Same(KeyRate(a), KeyRate(b))
       /\ \/ b.short < a.short
          \/ /\ a.short = b.short
             /\ \/ b.prev < a.prev
                \/ a.prev = b.prev /\ Less(KeyEK(a), KeyEK(b))

\* C2: in every successful result with an artifact, no output row is greater
\* than the row after it in the 4-key order.
C2_OutputSortedByFourKeys ==
    HasArtifact =>
        \A i \in 1..(Len(output_df) - 1) : ~ KeyGreater(output_df[i], output_df[i + 1])

\* an artifact whose rows the sort had to reorder
C2_Witness ==
    /\ HasArtifact
    /\ \E i \in 1..(Len(output_df) - 1) : output_df[i].idx > output_df[i + 1].idx

MissingRequired ==
    { c \in Range(required_input_cols_map) :
        \A i \in 1..Len(input.header) : Strip(input.header[i]) /= << c >> }

\* C3: a readable workbook whose trimmed header lacks a required column gets the
\* failure result, without filename or artifact, whose message names exactly the
\* missing columns and lists the trimmed headers; no row has been processed.
C3_MissingColumnFails ==
    (Returned /\ input.file = "ok" /\ MissingRequired /= {}) =>
        /\ ~ result.ok /\ result.filename = <<>> /\ result.data = <<>>
        /\ result.message.text = MsgSchema
        /\ Range(result.message.missing) = MissingRequired
        /\ Len(result.message.headers) = Len(input.header)
        /\ \A i \in 1..Len(input.header) :
              result.message.headers[i] = Strip(input.header[i])
        /\ df_temp_filtered = <<>> /\ df_filtered = <<>>
        /\ df_sorted = <<>> /\ output_df = <<>>

\* two columns are missing below a padded header, and no row has the diamond
C3_Witness ==
    /\ Returned /\ input.file = "ok"
    /\ Cardinality(MissingRequired) = 2
    /\ ~ result.ok
    /\ input.header /= <<>> /\ Head(input.header[1]) = " "
    /\ input.rows /= <<>>
    /\ \A i \in 1..Len(input.rows) : ~ NameHasDiamond(input.rows[i])

DiamondRows == { i \in 1..Len(input.rows) : NameHasDiamond(input.rows[i]) }
SuffixRows == { i \in DiamondRows : ~ NameEndsToichi(input.rows[i]) }

IsEmptyResult(text) ==
    /\ result.ok /\ result.filename = <<>> /\ result.data = <<>>
    /\ result.message.text = text
    /\ df_filtered = <<>> /\ df_sorted = <<>> /\ output_df = <<>>

\* C4: with the schema check passed, an empty row set after a filter returns
\* success without filename or artifact, with the message of the first filter
\* that emptied the set; the three messages differ and nothing is derived,
\* sorted or rendered.
C4_EmptyResultPerFilter ==
    (Returned /\ SchemaOk /\ PassingRows = {}) =>
        /\ DiamondRows = {} => IsEmptyResult(MsgNoDiamond)
        /\ (DiamondRows /= {} /\ SuffixRows = {}) => IsEmptyResult(MsgAllToichi)
        /\ SuffixRows /= {} => IsEmptyResult(MsgNoToday)
        /\ MsgNoDiamond /= MsgAllToichi /\ MsgAllToichi /= MsgNoToday
        /\ MsgNoDiamond /= MsgNoToday

\* the set became empty only at the quantity filter, on a text cell
C4_Witness ==
    /\ Returned /\ SchemaOk /\ SuffixRows /= {} /\ PassingRows = {}
    /\ \E i \in SuffixRows : input.rows[i].today.k = "txt"
    /\ result.message.text = MsgNoToday

FailureShape ==
    ~ result.ok /\ result.message.text /= "" /\ result.filename = <<>>
    /\ result.data = <<>>
EmptyShape ==
    result.ok /\ result.message.text /= "" /\ result.filename = <<>>
    /\ result.data = <<>>
ArtifactShape ==
    result.ok /\ result.message.text /= "" /\ Len(result.filename) = 1
    /\ Len(result.data) = 1

Positions == { "start", "loaded", "checked", "diamond", "suffix", "coerced", "today",
               "derived", "sorted", "done", "shown" }

\* C5: a run is always at a position of the function or has returned, and what
\* it returns is a failure without filename and artifact (load, schema or
\* internal error), a success without filename and artifact (empty result), or
\* a success with both, the last only when at least one row passed the three
\* filters; app.py shows an error, a notice or the download accordingly.
C5_ResultShapes ==
    /\ pc \in Positions
    /\ ~ Returned => result = NoResult
    /\ Returned =>
          /\ FailureShape \/ EmptyShape \/ ArtifactShape
          /\ FailureShape <=>
                \/ input.file /= "ok"
                \/ MissingRequired /= {}
                \/ result.message.text = MsgUnexpected
          /\ EmptyShape <=> (SchemaOk /\ PassingRows = {})
          /\ ArtifactShape => (SchemaOk /\ PassingRows /= {} /\ output_df /= <<>>)
    /\ pc = "shown" =>
          ui = IF FailureShape THEN "error" ELSE IF EmptyShape THEN "info" ELSE "download"

\* an exception raised inside the pipeline was turned into the failure result
C5_Witness ==
    /\ pc = "shown" /\ ui = "error"
    /\ result.message.error = "ZeroDivisionError"
    /\ PassingRows /= {}

\* C6: every output row carries prev / deliv when its delivery quantity is not
\* 0 and 0 when it is 0, and a table with a passing row whose delivery quantity
\* is 0 after coercion (text included) still returns the artifact.
C6_ZeroDeliveryNeverFails ==
    (Returned /\ SchemaOk /\ PassingRows /= {}) =>
        /\ \A j \in 1..Len(output_df) : Same(output_df[j].rate, KeyRate(output_df[j]))
        /\ result.ok /\ result.data /= <<>>
        /\ \A i \in PassingRows :
              \E j \in 1..Len(output_df) :
                 /\ SameRow(output_df[j], input.rows[i])
                 /\ Same(output_df[j].rate, KeyRate(output_df[j]))

HasRatios == pc \in { "derived", "sorted" } \/ HasArtifact

\* C7: after the derivation each row's delivery_to_shortage_ratio is -1 when its
\* shortage is <= 0 and deliv / short otherwise; and of two output rows tied on
\* the first three keys, the one with the larger ratio comes first.
C7_FourthKeyDescending ==
    /\ HasRatios =>
          \A i \in 1..Len(df_filtered) :
             LET r == df_filtered[i] IN
             IF r.short.v <= 0 THEN r.ek = << -1, 1 >>
             ELSE Same(r.ek, Quot(r.deliv.v, r.short.v))
    /\ HasArtifact =>
          \A i, j \in 1..Len(output_df) :
             ( /\ TieOnThree(output_df[i], output_df[j])
               /\ Less(KeyEK(output_df[j]), KeyEK(output_df[i])) ) => i < j

\* two rows tied on three keys, the one with the larger ratio later in the input
C7_Witness ==
    /\ HasArtifact
    /\ \E i, j \in 1..Len(output_df) :
          /\ TieOnThree(output_df[i], output_df[j])
          /\ Less(KeyEK(output_df[j]), KeyEK(output_df[i]))
          /\ output_df[i].idx > output_df[j].idx

TieOnFour(a, b) == TieOnThree(a, b) /\ Same(KeyEK(a), KeyEK(b))

\* C8: output rows equal on all four keys keep the order they had in the input.
C8_SortIsStable ==
    HasArtifact =>
        \A i, j \in 1..Len(output_df) :
           (i < j /\ TieOnFour(output_df[i], output_df[j])) =>
               output_df[i].idx < output_df[j].idx

\* two rows equal on all four keys, with different delivery quantities
C8_Witness ==
    /\ HasArtifact
    /\ \E i, j \in 1..Len(output_df) :
          /\ i < j /\ TieOnFour(output_df[i], output_df[j])
          /\ output_df[i].deliv /= output_df[j].deliv

\* the content a sheet of n data rows must have
ExpectedContent(n) ==
    { [ r |-> 1, c |-> 2, what |-> "title" ] }
    \cup { [ r |-> 2, c |-> c, what |-> "header" ] : c \in 1..7 }
    \cup { [ r |-> r, c |-> c, what |-> "data" ] : r \in 3..(n + 2), c \in 1..7 }
    \cup { [ r |-> n + 4, c |-> 1, what |-> "footer1" ],
           [ r |-> n + 5, c |-> 1, what |-> "footer2" ] }

HasSorted == pc = "sorted" \/ HasArtifact

\* C10: two sorted rows tied on fulfillment ratio, shortage and previous-day
\* stock have both the sentinel -1 (shortage <= 0) or both deliv / short
\* (shortage > 0); their fourth keys differ only when the previous-day stock is
\* 0 and the shortage > 0, and then the row with the larger delivery quantity
\* comes first.
C10_SentinelNeverMeetsRatio ==
    HasSorted =>
        \A i, j \in 1..Len(df_sorted) :
           LET a == df_sorted[i]
               b == df_sorted[j]
           IN ( /\ i < j
                /\ Same(a.rate, b.rate)
                /\ a.short.v = b.short.v
                /\ a.prev.v = b.prev.v ) =>
                 /\ \/ /\ a.short.v <= 0
                       /\ a.ek = << -1, 1 >> /\ b.ek = << -1, 1 >>
                    \/ /\ a.short.v > 0
                       /\ Same(a.ek, Quot(a.deliv.v, a.short.v))
                       /\ Same(b.ek, Quot(b.deliv.v, b.short.v))
                 /\ ~ Same(a.ek, b.ek) =>
                       /\ a.prev.v = 0 /\ a.short.v > 0
                       /\ a.deliv.v > b.deliv.v

\* two tied rows with different fourth keys, the larger delivery later in the input
C10_Witness ==
    /\ HasArtifact
    /\ \E i, j \in 1..Len(df_sorted) :
          /\ i < j
          /\ Same(df_sorted[i].rate, df_sorted[j].rate)
          /\ df_sorted[i].short.v = df_sorted[j].short.v
          /\ df_sorted[i].prev.v = df_sorted[j].prev.v
          /\ ~ Same(df_sorted[i].ek, df_sorted[j].ek)
          /\ df_sorted[i].idx > df_sorted[j].idx

====
